---------------------------- MODULE Spec2Model ----------------------------
(***************************************************************************)
(* A model of the Hanzo MCP tool server (TypeScript implementation):       *)
(*   - the file tools            src/src/tools/file-ops.ts                 *)
(*   - the edit tools            src/src/tools/edit.ts                     *)
(*   - the background processes  src/src/tools/shell.ts                    *)
(*   - the two dispatchers       src/src/index.ts, src/src/cli.ts          *)
(*                                                                         *)
(* Texts are sequences of one-character strings.  A path is a sequence of  *)
(* path components.  A JavaScript arguments object is a record; a property *)
(* the caller left out is a field the record does not have.                *)
(***************************************************************************)
EXTENDS Integers, Sequences, FiniteSets, TLC

VARIABLES
    files,                \* existing regular files: canonical path -> content
    dirs,                 \* existing directories (canonical paths)
    writing,              \* the fs.writeFile that has opened its file
    checked,              \* the handler waiting between its fs.access and its write
    backgroundProcesses,  \* shell.ts: Map id -> procData object (by its pid)
    procData,             \* the procData objects ever created: pid -> record
    osProc,               \* the OS side of every spawned child: pid -> record
    combinedTools,        \* index.ts: the list served by tools/list
    combinedToolMap,      \* index.ts: the map tools/call dispatches through
    call,                 \* the request (or child event) handled last
    resp                  \* the response to it

vars == <<files, dirs, writing, checked, backgroundProcesses, procData, osProc,
          combinedTools, combinedToolMap, call, resp>>

fsVars   == <<files, dirs, writing>>
procVars == <<backgroundProcesses, procData, osProc>>
regVars  == <<combinedTools, combinedToolMap>>

-----------------------------------------------------------------------------
(* Bounds of the model.                                                    *)

MaxContent == 4     \* longest file content an edit or write may produce
MaxEdits   == 2     \* longest edit list given to multi_edit
MaxSpawns  == 2     \* children spawned in one run of the server
MaxChunks  == 2     \* data events delivered by the children of one run
MaxCustom  == 2     \* addTool calls in one run of the server

-----------------------------------------------------------------------------
(* JavaScript strings.                                                     *)

\* String(undefined): the nine letters, carried as one symbol.  No other
\* symbol of the model's alphabet occurs in it.
UndefinedText == <<"undefined">>

\* obj[field] coerced to a string, as includes/split/replace coerce it.
Str(args, field) == IF field \in DOMAIN args THEN args[field] ELSE UndefinedText

OccursAt(s, t, i) ==
    /\ i >= 1
    /\ i + Len(t) - 1 <= Len(s)
    /\ SubSeq(s, i, i + Len(t) - 1) = t

\* s.indexOf(t) + 1 (0 when t does not occur); the empty t occurs at 1.
IndexOf(s, t) ==
    LET hits == {i \in 1..(Len(s) + 1) : OccursAt(s, t, i)}
    IN  IF hits = {} THEN 0 ELSE CHOOSE i \in hits : \A j \in hits : i <= j

\* s.includes(t)
Includes(s, t) == IndexOf(s, t) # 0

RECURSIVE SplitPieces(_, _)
\* s.split(t) for a non-empty separator t: the scan restarts after each
\* match, so a match that overlaps an earlier one is not seen.
SplitPieces(s, t) ==
    LET i == IndexOf(s, t)
    IN  IF i = 0 THEN <<s>>
        ELSE <<SubSeq(s, 1, i - 1)>>
             \o SplitPieces(SubSeq(s, i + Len(t), Len(s)), t)

\* s.split(t); the empty separator splits into the characters.
Split(s, t) == IF t = <<>> THEN [i \in 1..Len(s) |-> <<s[i]>>] ELSE SplitPieces(s, t)

\* s.split(t).length
SplitLength(s, t) == Len(Split(s, t))

RECURSIVE GetSubstitution(_, _, _, _)
\* The replacement text of String.prototype.replace with a string pattern:
\* $$ is a dollar, $& the match, $` the text before it, $' the text after
\* it; any other character stands for itself.
GetSubstitution(r, matched, before, after) ==
    IF r = <<>> THEN <<>>
    ELSE IF r[1] = "$" /\ Len(r) >= 2 /\ r[2] \in {"$", "&", "`", "'"}
         THEN (CASE r[2] = "$" -> <<"$">>
                 [] r[2] = "&" -> matched
                 [] r[2] = "`" -> before
                 [] r[2] = "'" -> after)
              \o GetSubstitution(SubSeq(r, 3, Len(r)), matched, before, after)
         ELSE <<r[1]>> \o GetSubstitution(Tail(r), matched, before, after)

\* s.replace(t, r) with a string t: the first occurrence only.
Replace(s, t, r) ==
    LET i == IndexOf(s, t)
    IN  IF i = 0 THEN s
        ELSE LET before == SubSeq(s, 1, i - 1)
                 after  == SubSeq(s, i + Len(t), Len(s))
             IN  before \o GetSubstitution(r, t, before, after) \o after

-----------------------------------------------------------------------------
(* The file system the fs/promises calls act on.                           *)

\* What path resolution makes of a path: "x/.." steps cancel.
RECURSIVE Normalize(_)
Normalize(p) ==
    IF p = <<>> THEN <<>>
    ELSE LET c == Normalize(SubSeq(p, 1, Len(p) - 1))
         IN  IF p[Len(p)] = ".."
             THEN (IF c = <<>> THEN <<>> ELSE SubSeq(c, 1, Len(c) - 1))
             ELSE Append(c, p[Len(p)])

\* path.dirname: lexical, the last component dropped.
Dirname(p) == SubSeq(p, 1, Len(p) - 1)

\* Every directory the kernel walks through on the way to p exists.
Reachable(p) == \A i \in 1..(Len(p) - 1) : Normalize(SubSeq(p, 1, i)) \in dirs

IsFile(p) == Reachable(p) /\ Normalize(p) \in DOMAIN files
IsDir(p)  == Reachable(p) /\ Normalize(p) \in dirs
Exists(p) == IsFile(p) \/ IsDir(p)

IsUnder(q, d) == Len(q) >= Len(d) /\ SubSeq(q, 1, Len(d)) = d

\* fs.mkdir(d, {recursive: true}): fails when a component is a regular file.
MkdirFails(d) == \E i \in 1..Len(d) : Normalize(SubSeq(d, 1, i)) \in DOMAIN files
MkdirResult(d) == dirs \cup {Normalize(SubSeq(d, 1, i)) : i \in 0..Len(d)}

\* fs.writeFile(p, data): the errno it fails with, "" when it succeeds.
\* A data argument that is undefined is refused before the file is opened.
WriteErr(p, args, field, dirsNow) ==
    IF field \notin DOMAIN args THEN "ERR_INVALID_ARG_TYPE"
    ELSE IF Normalize(p) \in dirsNow THEN "EISDIR"
    ELSE IF Normalize(Dirname(p)) \notin dirsNow THEN "ENOENT"
    ELSE ""

\* No handler is between its fs.access and its write or rename.
NoCheck == [name |-> "none"]

\* No fs.writeFile is between its open and its close.
NoWrite == [req |-> [name |-> "none"], path |-> <<>>, data |-> <<>>]

WriteResult(p, data) ==
    [q \in DOMAIN files \cup {Normalize(p)} |->
        IF q = Normalize(p) THEN data ELSE files[q]]

\* fs.readFile(p): the errno it fails with, "" when it succeeds.
ReadErr(args, field) ==
    IF field \notin DOMAIN args THEN "ERR_INVALID_ARG_TYPE"
    ELSE IF IsDir(args[field]) THEN "EISDIR"
    ELSE IF ~IsFile(args[field]) THEN "ENOENT"
    ELSE ""

\* The argument an ERR_INVALID_ARG_TYPE message of Node names.
NodeArgName(errno, nodeName) == IF errno = "ERR_INVALID_ARG_TYPE" THEN {nodeName} ELSE {}

-----------------------------------------------------------------------------
(* Tool results (types: ToolResult).  text is the message: its kind, the    *)
(* words it quotes (tool names, ids, argument names), the number it states *)
(* and the data it carries.                                                *)

Result(isError, kind, quotes, count, out) ==
    [rpc |-> "result", isError |-> isError, kind |-> kind,
     quotes |-> quotes, count |-> count, out |-> out]

Success(kind, out)        == Result(FALSE, kind, {}, 0, out)
Failure(kind, quotes)     == Result(TRUE, kind, quotes, 0, <<>>)

\* What the SDK answers when a request handler throws: a JSON-RPC error.
RpcError(kind, quotes) ==
    [rpc |-> "error", isError |-> FALSE, kind |-> kind,
     quotes |-> quotes, count |-> 0, out |-> <<>>]

NoResponse == [rpc |-> "none", isError |-> FALSE, kind |-> "",
               quotes |-> {}, count |-> 0, out |-> <<>>]

-----------------------------------------------------------------------------
(* file-ops.ts                                                             *)

\* readFileTool.handler
readFileTool(args) ==
    /\ resp' = IF ReadErr(args, "path") # ""
               THEN Failure("Error reading file",
                            NodeArgName(ReadErr(args, "path"), "path"))
               ELSE Success("content", files[Normalize(args.path)])
    /\ UNCHANGED <<fsVars, procVars>>

\* writeFileTool.handler: mkdir of the parent, then the write; an error of
\* either is caught, and what mkdir created stays.
writeFileTool(args) ==
    IF "path" \notin DOMAIN args
    THEN /\ resp' = Failure("Error writing file", {"path"})
         /\ UNCHANGED <<fsVars, procVars>>
    ELSE IF MkdirFails(Dirname(args.path))
    THEN /\ resp' = Failure("Error writing file", {})
         /\ UNCHANGED <<fsVars, procVars>>
    ELSE LET made == MkdirResult(Dirname(args.path))
             err  == WriteErr(args.path, args, "content", made)
         IN  /\ dirs' = made
             /\ files' = IF err = "" THEN WriteResult(args.path, args.content)
                         ELSE files
             /\ resp' = IF err = ""
                        THEN Success("File written successfully", <<>>)
                        ELSE Failure("Error writing file", NodeArgName(err, "data"))
             /\ UNCHANGED <<writing, procVars>>

-----------------------------------------------------------------------------
(* edit.ts                                                                 *)

\* The occurrence count of both edit handlers.
Occurrences(content, oldText) == SplitLength(content, oldText) - 1

\* editFileTool.handler
editFileTool(args) ==
    IF ReadErr(args, "path") # ""
    THEN /\ resp' = Failure("Error editing file",
                            NodeArgName(ReadErr(args, "path"), "path"))
         /\ UNCHANGED <<fsVars, procVars>>
    ELSE LET content     == files[Normalize(args.path)]
             oldText     == Str(args, "oldText")
             occurrences == Occurrences(content, oldText)
             newContent  == Replace(content, oldText, Str(args, "newText"))
         IN  IF ~Includes(content, oldText)
             THEN /\ resp' = Failure("oldText not found in file", {})
                  /\ UNCHANGED <<fsVars, procVars>>
             ELSE IF occurrences > 1
             THEN /\ resp' = Result(TRUE, "oldText found N times", {},
                                    occurrences, <<>>)
                  /\ UNCHANGED <<fsVars, procVars>>
             ELSE /\ files' = WriteResult(args.path, newContent)
                  /\ resp' = Success("Successfully replaced text", <<>>)
                  /\ UNCHANGED <<dirs, writing, procVars>>

\* A loop that stops after its first edit.
ApplyFirstEdit(content, edits) ==
    IF edits = <<>> THEN <<content, <<>>>>
    ELSE <<Replace(content, Str(edits[1], "oldText"), Str(edits[1], "newText")),
           [i \in 1..Len(edits) |-> "Replaced"]>>

RECURSIVE ApplyEdits(_, _)
\* The loop of multiEditTool.handler: <<running content, results>> once
\* the edits have been gone through, front to back.  An edit that is not
\* found, or found more than once, is noted and skipped.
ApplyEdits(content, edits) ==
    IF edits = <<>> THEN <<content, <<>>>>
    ELSE LET edit == edits[1]
             step ==
               IF ~Includes(content, Str(edit, "oldText"))
               THEN <<content, "not found">>
               ELSE IF Occurrences(content, Str(edit, "oldText")) > 1
               THEN <<content, "found N times">>
               ELSE <<Replace(content, Str(edit, "oldText"),
                              Str(edit, "newText")), "Replaced">>
             rest == ApplyEdits(step[1], Tail(edits))
         IN  <<rest[1], <<step[2]>> \o rest[2]>>

\* multiEditTool.handler: the file is written after the loop, whatever the
\* loop noted.  Edits that are not a list cannot be iterated: a TypeError.
multiEditTool(args) ==
    IF ReadErr(args, "path") # ""
    THEN /\ resp' = Failure("Error in multi-edit",
                            NodeArgName(ReadErr(args, "path"), "path"))
         /\ UNCHANGED <<fsVars, procVars>>
    ELSE IF "edits" \notin DOMAIN args
    THEN /\ resp' = Failure("Error in multi-edit", {"edits"})
         /\ UNCHANGED <<fsVars, procVars>>
    ELSE LET done == ApplyEdits(files[Normalize(args.path)], args.edits)
         IN  /\ files' = WriteResult(args.path, done[1])
             /\ resp' = Success("Edits completed", done[2])
             /\ UNCHANGED <<dirs, writing, procVars>>

\* obj[field] as a condition: a property left out is falsy.
Truthy(args, field) == field \in DOMAIN args /\ args[field] = TRUE

\* fs.access(p) resolves; it rejects for an undefined path as for a missing
\* one, and both handlers swallow the rejection.
AccessOk(args, field) == field \in DOMAIN args /\ Exists(args[field])

\* createFileTool.handler from the mkdir of the parent on: what it does once
\* the existence check has let it pass.
createFileWrite(args) ==
    IF "path" \notin DOMAIN args
    THEN /\ resp' = Failure("Error creating file", {"path"})
         /\ UNCHANGED <<fsVars, procVars>>
    ELSE IF MkdirFails(Dirname(args.path))
    THEN /\ resp' = Failure("Error creating file", {})
         /\ UNCHANGED <<fsVars, procVars>>
    ELSE LET made == MkdirResult(Dirname(args.path))
             err  == WriteErr(args.path, args, "content", made)
         IN  /\ dirs' = made
             /\ files' = IF err = "" THEN WriteResult(args.path, args.content)
                         ELSE files
             /\ resp' = IF err = "" THEN Success("File created", <<>>)
                        ELSE Failure("Error creating file", NodeArgName(err, "data"))
             /\ UNCHANGED <<writing, procVars>>

\* The existence check of createFileTool.handler refuses the call.
createFileRefused(args) == AccessOk(args, "path") /\ ~Truthy(args, "overwrite")

\* createFileTool.handler
createFileTool(args) ==
    IF createFileRefused(args)
    THEN /\ resp' = Failure("File already exists", {})
         /\ UNCHANGED <<fsVars, procVars>>
    ELSE createFileWrite(args)

HasChildren(d) ==
    \E q \in DOMAIN files \cup dirs : q # Normalize(d) /\ IsUnder(q, Normalize(d))

\* deleteFileTool.handler
deleteFileTool(args) ==
    IF "path" \notin DOMAIN args
    THEN /\ resp' = Failure("Error deleting", {"path"})
         /\ UNCHANGED <<fsVars, procVars>>
    ELSE IF ~Exists(args.path)
    THEN /\ resp' = Failure("Error deleting", {})
         /\ UNCHANGED <<fsVars, procVars>>
    ELSE IF IsDir(args.path) /\ ~Truthy(args, "recursive") /\ HasChildren(args.path)
    THEN /\ resp' = Failure("Error deleting", {})
         /\ UNCHANGED <<fsVars, procVars>>
    ELSE LET gone == Normalize(args.path)
             keep == {q \in DOMAIN files : ~IsUnder(q, gone)}
         IN  /\ files' = [q \in keep |-> files[q]]
             /\ dirs' = {d \in dirs : ~IsUnder(d, gone)}
             /\ resp' = Success("Deleted", <<>>)
             /\ UNCHANGED <<writing, procVars>>

\* fs.rename(src, dst) once the destination directory has been made: the
\* errno it fails with, "" when it succeeds.
RenameErr(args, dirsNow) ==
    IF "source" \notin DOMAIN args THEN "ERR_INVALID_ARG_TYPE"
    ELSE LET src == Normalize(args.source)
             dst == Normalize(args.destination)
         IN  IF ~Exists(args.source) THEN "ENOENT"
             ELSE IF src = dst THEN ""
             ELSE IF src \in DOMAIN files /\ dst \in dirsNow THEN "EISDIR"
             ELSE IF src \in dirs /\ dst \in DOMAIN files THEN "ENOTDIR"
             ELSE IF src \in dirs /\ IsUnder(dst, src) THEN "EINVAL"
             ELSE IF src \in dirs /\ dst \in dirsNow /\ HasChildren(dst)
                  THEN "ENOTEMPTY"
             ELSE ""

Rebase(q, src, dst) == dst \o SubSeq(q, Len(src) + 1, Len(q))

\* moveFileTool.handler from the mkdir on, once the existence check has let
\* it pass: the destination directory is made before the rename is tried.
moveFileRename(args) ==
    IF "destination" \notin DOMAIN args
    THEN /\ resp' = Failure("Error moving file", {"path"})
         /\ UNCHANGED <<fsVars, procVars>>
    ELSE IF MkdirFails(Dirname(args.destination))
    THEN /\ resp' = Failure("Error moving file", {})
         /\ UNCHANGED <<fsVars, procVars>>
    ELSE LET made == MkdirResult(Dirname(args.destination))
             err  == RenameErr(args, made)
             src  == Normalize(args.source)
             dst  == Normalize(args.destination)
             stay == {q \in DOMAIN files : ~IsUnder(q, src) /\ q # dst}
             move == {q \in DOMAIN files : IsUnder(q, src)}
         IN  IF err # ""
             THEN /\ dirs' = made
                  /\ resp' = Failure("Error moving file", NodeArgName(err, "oldPath"))
                  /\ UNCHANGED <<files, writing, procVars>>
             ELSE /\ files' = [q \in stay \cup {Rebase(m, src, dst) : m \in move} |->
                                 IF q \in stay THEN files[q]
                                 ELSE files[Rebase(q, dst, src)]]
                  /\ dirs' = {d \in made : ~IsUnder(d, src)}
                             \cup {Rebase(d, src, dst) : d \in {e \in made : IsUnder(e, src)}}
                  /\ resp' = Success("Moved", <<>>)
                  /\ UNCHANGED <<writing, procVars>>

\* The existence check of moveFileTool.handler refuses the call.
moveFileRefused(args) == AccessOk(args, "destination") /\ ~Truthy(args, "overwrite")

\* moveFileTool.handler
moveFileTool(args) ==
    IF moveFileRefused(args)
    THEN /\ resp' = Failure("Destination already exists", {})
         /\ UNCHANGED <<fsVars, procVars>>
    ELSE moveFileRename(args)

-----------------------------------------------------------------------------
(* file-ops.ts, the tools that only read.                                  *)

\* process.cwd(), which '.' stands for.
Cwd == <<"proj">>

\* args.path || '.'
PathOrDot(args) == IF "path" \in DOMAIN args THEN args.path ELSE Cwd

\* fs.readdir(d): the entries of d, a directory marked as such.
Readdir(d) ==
    {<<q[Len(q)], q \in dirs>> :
        q \in {r \in DOMAIN files \cup dirs : r # <<>> /\ Dirname(r) = Normalize(d)}}

\* listFilesTool.handler, called without a glob pattern.
listFilesTool(args) ==
    /\ resp' = IF IsDir(PathOrDot(args))
               THEN Success("entries", Readdir(PathOrDot(args)))
               ELSE Failure("Error listing files", {})
    /\ UNCHANGED <<fsVars, procVars>>

\* getFileInfoTool.handler
getFileInfoTool(args) ==
    /\ resp' = IF "path" \notin DOMAIN args
               THEN Failure("Error getting file info", {"path"})
               ELSE IF ~Exists(args.path)
               THEN Failure("Error getting file info", {})
               ELSE Success("info", [isDirectory |-> IsDir(args.path),
                                     isFile |-> IsFile(args.path),
                                     size |-> IF IsFile(args.path)
                                              THEN Len(files[Normalize(args.path)])
                                              ELSE 0])
    /\ UNCHANGED <<fsVars, procVars>>

\* directoryTreeTool.handler: buildTree lists what lies below the path (the
\* default depth of 3 reaches every path of the model); a directory that
\* cannot be read gives the one line "[Error reading directory]".
directoryTreeTool(args) ==
    /\ resp' = IF IsDir(PathOrDot(args))
               THEN Success("tree",
                      {q \in DOMAIN files \cup dirs :
                          q # Normalize(PathOrDot(args))
                          /\ IsUnder(q, Normalize(PathOrDot(args)))})
               ELSE Success("tree", {<<"[Error reading directory]">>})
    /\ UNCHANGED <<fsVars, procVars>>

-----------------------------------------------------------------------------
(* shell.ts: the background processes.  A procData object is named by the  *)
(* pid of its child; the listeners of a child hold that object, whatever   *)
(* the table holds later.                                                  *)

\* args.tail || 50
DefaultTail == 50

\* The Map key a call gives: a missing id is the key undefined.
IdOf(args) == IF "id" \in DOMAIN args THEN args.id ELSE "undefined"

Spawned == DOMAIN procData

RECURSIVE ChunksUpTo(_)
ChunksUpTo(n) ==
    IF n = 0 THEN 0
    ELSE Len(procData[n].output) + Len(procData[n].error) + ChunksUpTo(n - 1)

\* Data events delivered so far.
ChunksDelivered == ChunksUpTo(Cardinality(Spawned))

\* backgroundProcesses.set(id, obj)
MapSet(map, key, val) ==
    [k \in DOMAIN map \cup {key} |-> IF k = key THEN val ELSE map[k]]

\* A Map that answers has(key) with false for every key.
MapHasNothing(map, key) == FALSE

\* backgroundProcesses.has(id)
MapHas(map, key) == key \in DOMAIN map

\* A Map whose delete(key) removes nothing.
MapDeleteNothing(map, key) == map

\* backgroundProcesses.delete(id)
MapDelete(map, key) == [k \in DOMAIN map \ {key} |-> map[k]]

\* A program that is not on the PATH.
NoSuchProgram == <<"nope">>

\* spawn(cmd, cmdArgs) gets a process going; for a program that is not
\* there it returns a child without a process, which emits 'error' later.
Starts(argv) == argv[1] # NoSuchProgram

\* runBackgroundTool.handler.  A command that is undefined has no split
\* method: a TypeError, caught.  The child gets the pieces of the command
\* between single spaces as its argv.
runBackgroundTool(args) ==
    IF MapHas(backgroundProcesses, IdOf(args))
    THEN /\ resp' = Failure("Process with ID already exists", {IdOf(args)})
         /\ UNCHANGED <<fsVars, procVars>>
    ELSE IF "command" \notin DOMAIN args
    THEN /\ resp' = Failure("Error starting background process", {"split"})
         /\ UNCHANGED <<fsVars, procVars>>
    ELSE LET pid == Cardinality(Spawned) + 1
         IN  /\ osProc' = MapSet(osProc, pid,
                              [state |-> IF Starts(Split(args.command, <<" ">>))
                                         THEN "running" ELSE "failed",
                               signal |-> "none",
                               argv |-> Split(args.command, <<" ">>)])
             /\ procData' = MapSet(procData, pid,
                              [output |-> <<>>, error |-> <<>>,
                               exitCode |-> "undefined"])
             /\ backgroundProcesses' = MapSet(backgroundProcesses, IdOf(args), pid)
             /\ resp' = Result(FALSE, "Background process started",
                               {IdOf(args)}, pid, <<>>)
             /\ UNCHANGED fsVars

\* A test of the exit code by its truthiness: 0 and null pass for undefined.
IsRunningFalsy(data) == data.exitCode \in {"undefined", "0", "null"}

\* data.exitCode === undefined
IsRunning(data) == data.exitCode = "undefined"

\* One entry of the list of listProcessesTool.handler.
ProcessEntry(id) ==
    LET data == procData[backgroundProcesses[id]]
    IN  [id |-> id, pid |-> backgroundProcesses[id],
         running |-> IsRunning(data),
         exitCode |-> data.exitCode]

\* listProcessesTool.handler
listProcessesTool(args) ==
    /\ resp' = IF DOMAIN backgroundProcesses = {}
               THEN Success("No background processes running", {})
               ELSE Success("processes",
                            {ProcessEntry(id) : id \in DOMAIN backgroundProcesses})
    /\ UNCHANGED <<fsVars, procVars>>

\* array.slice(-n) for n > 0
SliceLast(seq, n) == SubSeq(seq, IF Len(seq) > n THEN Len(seq) - n + 1 ELSE 1, Len(seq))

RECURSIVE Join(_)
\* array.join('')
Join(seq) == IF seq = <<>> THEN <<>> ELSE seq[1] \o Join(Tail(seq))

\* A run of bytes without a line end that arrives as one piece: one symbol
\* of a text stands for it.
Block == "blk"
BlockBytes == 64 * 1024

RECURSIVE TextBytes(_)
\* The bytes of a text: a symbol is one byte, a block is its run.
TextBytes(text) ==
    IF text = <<>> THEN 0
    ELSE (IF text[1] = Block THEN BlockBytes ELSE 1) + TextBytes(Tail(text))

\* The bytes an array of chunks holds.
StoredBytes(chunks) == TextBytes(Join(chunks))

\* args.tail || 50
TailOf(args) == IF "tail" \in DOMAIN args /\ args.tail # 0 THEN args.tail ELSE DefaultTail

\* getProcessOutputTool.handler: the last tail elements of each array.
getProcessOutputTool(args) ==
    /\ resp' = IF IdOf(args) \notin DOMAIN backgroundProcesses
               THEN Failure("No process found with ID", {IdOf(args)})
               ELSE LET data == procData[backgroundProcesses[IdOf(args)]]
                    IN  Success("output",
                          [stdout |-> Join(SliceLast(data.output, TailOf(args))),
                           stderr |-> Join(SliceLast(data.error, TailOf(args)))])
    /\ UNCHANGED <<fsVars, procVars>>

\* ChildProcess.kill(): SIGTERM is sent to a child that has not exited;
\* nothing is waited for.
Kill(pid) ==
    IF osProc[pid].state = "running"
    THEN [osProc EXCEPT ![pid].signal = "SIGTERM"]
    ELSE osProc

\* killProcessTool.handler: the entry is deleted right after the signal is
\* sent.  (kill() with the default signal does not throw.)
killProcessTool(args) ==
    IF IdOf(args) \notin DOMAIN backgroundProcesses
    THEN /\ resp' = Failure("No process found with ID", {IdOf(args)})
         /\ UNCHANGED <<fsVars, procVars>>
    ELSE /\ osProc' = Kill(backgroundProcesses[IdOf(args)])
         /\ backgroundProcesses' = MapDelete(backgroundProcesses, IdOf(args))
         /\ resp' = Result(FALSE, "Process killed", {IdOf(args)}, 0, <<>>)
         /\ UNCHANGED <<fsVars, procData>>

\* Listeners that write to the object made last, whose child it may be.
HeldLast(pid) == Cardinality(Spawned)

\* The procData object the listeners of a child hold: the one the handler
\* got from the table right after it had set it, for that child.
Held(pid) == pid

\* What a child event is recorded as in call.
ChildEvent(name, data) == [server |-> "child", method |-> name, data |-> data]

\* proc.stdout.on('data'): the chunk is pushed on the object the listener
\* holds.
StdoutData(pid, chunk) ==
    /\ pid \in Spawned /\ osProc[pid].state = "running"
    /\ ChunksDelivered < MaxChunks
    /\ procData' = [procData EXCEPT ![Held(pid)].output = Append(@, chunk)]
    /\ call' = ChildEvent("stdout", chunk)
    /\ resp' = NoResponse
    /\ UNCHANGED <<fsVars, checked, regVars, backgroundProcesses, osProc>>

\* proc.stderr.on('data')
StderrData(pid, chunk) ==
    /\ pid \in Spawned /\ osProc[pid].state = "running"
    /\ ChunksDelivered < MaxChunks
    /\ procData' = [procData EXCEPT ![Held(pid)].error = Append(@, chunk)]
    /\ call' = ChildEvent("stderr", chunk)
    /\ resp' = NoResponse
    /\ UNCHANGED <<fsVars, checked, regVars, backgroundProcesses, osProc>>

\* The codes the exit event of a child can carry: a status (0 stands for
\* them), or null when the signal ended it.
ExitCodes(pid) == {"0"} \cup (IF osProc[pid].signal = "SIGTERM" THEN {"null"} ELSE {})

\* The child exits and proc.on('exit') runs.
ExitEvent(pid, code) ==
    /\ pid \in Spawned /\ osProc[pid].state = "running"
    /\ code \in ExitCodes(pid)
    /\ osProc' = [osProc EXCEPT ![pid].state = "exited"]
    /\ procData' = [procData EXCEPT ![Held(pid)].exitCode = code]
    /\ call' = ChildEvent("exit", code)
    /\ resp' = NoResponse
    /\ UNCHANGED <<fsVars, checked, regVars, backgroundProcesses>>

\* The Node process of the server has ended on an exception nothing caught.
Crashed == [rpc |-> "crash", isError |-> FALSE, kind |-> "uncaught exception",
            quotes |-> {}, count |-> 0, out |-> <<>>]

\* The child that got no process emits 'error' (spawn ENOENT) on the next
\* tick.  The handler registered listeners for 'data' and 'exit' only: an
\* 'error' event without a listener is thrown, and nothing catches it.
SpawnError(pid) ==
    /\ pid \in Spawned /\ osProc[pid].state = "failed"
    /\ call' = ChildEvent("error", "ENOENT")
    /\ resp' = Crashed
    /\ UNCHANGED <<fsVars, checked, regVars, procVars>>

-----------------------------------------------------------------------------
(* shell.ts: bash and run_command.  A command is told by what the shell    *)
(* does with it: it sleeps, writes to stdout, then to stderr, then exits   *)
(* with a status (sleep D; head -c O /dev/zero; head -c E /dev/zero >&2;   *)
(* exit S).  Output is told by its number of bytes.                        *)

Script(sleep, stdout, stderr, status) ==
    [sleep |-> sleep, stdout |-> stdout, stderr |-> stderr, status |-> status]

\* timeout: args.timeout || 30000
DefaultTimeout == 30000
TimeoutOf(args) ==
    IF "timeout" \in DOMAIN args /\ args.timeout # 0
    THEN args.timeout ELSE DefaultTimeout

\* maxBuffer: 10 * 1024 * 1024
MaxBuffer == 10 * 1024 * 1024

Min(a, b) == IF a < b THEN a ELSE b

\* child_process.exec(command, {timeout, maxBuffer}): what the promise of
\* execAsync settles with.  When the timeout runs out the child is sent
\* SIGTERM and the promise rejects with "Command failed"; when a stream
\* grows past maxBuffer the child is killed, the stream is cut at maxBuffer
\* and the promise rejects; a status other than 0 rejects with "Command
\* failed" too.  The error carries what was captured.
Exec(script, timeout, maxBuffer) ==
    IF script.sleep >= timeout
    THEN [rejected |-> TRUE, message |-> "Command failed", code |-> "null",
          signal |-> "SIGTERM", killed |-> TRUE, stdout |-> 0, stderr |-> 0]
    ELSE IF script.stdout > maxBuffer
    THEN [rejected |-> TRUE, message |-> "stdout maxBuffer length exceeded",
          code |-> "ERR_CHILD_PROCESS_STDIO_MAXBUFFER",
          signal |-> "SIGTERM", killed |-> TRUE,
          stdout |-> maxBuffer, stderr |-> 0]
    ELSE IF script.stderr > maxBuffer
    THEN [rejected |-> TRUE, message |-> "stderr maxBuffer length exceeded",
          code |-> "ERR_CHILD_PROCESS_STDIO_MAXBUFFER",
          signal |-> "SIGTERM", killed |-> TRUE,
          stdout |-> script.stdout, stderr |-> maxBuffer]
    ELSE IF script.status # 0
    THEN [rejected |-> TRUE, message |-> "Command failed",
          code |-> script.status, signal |-> "null", killed |-> FALSE,
          stdout |-> script.stdout, stderr |-> script.stderr]
    ELSE [rejected |-> FALSE, message |-> "", code |-> 0,
          signal |-> "null", killed |-> FALSE,
          stdout |-> script.stdout, stderr |-> script.stderr]

\* What a result of bash tells: the bytes of stdout and of stderr in its
\* text.  No text of the handler states an exit status (status is the set
\* of those stated), the timeout, or that output was cut.
ShellOut(stdout, stderr) ==
    [stdout |-> stdout, stderr |-> stderr, status |-> {},
     truncated |-> FALSE]

\* bashTool.handler.  A command that is undefined is refused by exec, inside
\* the try.
bashTool(args) ==
    /\ UNCHANGED <<fsVars, procVars>>
    /\ IF "command" \notin DOMAIN args
       THEN resp' = Failure("Error executing command", {"command"})
       ELSE LET done == Exec(args.command, TimeoutOf(args), MaxBuffer)
            IN  IF done.rejected
                THEN resp' = Result(TRUE,
                                    "Error executing command: " \o done.message,
                                    {}, 0, ShellOut(done.stdout, done.stderr))
                ELSE IF done.stdout = 0 /\ done.stderr = 0
                THEN resp' = Success("Command completed with no output",
                                     ShellOut(0, 0))
                ELSE resp' = Success("output",
                                     ShellOut(done.stdout, done.stderr))

-----------------------------------------------------------------------------
(* The search tools: grep and search.  A pattern is a literal text; what a *)
(* backend prints is told by the set of files it finds a match in.         *)

\* Where rg is when it is installed.
RgPath == <<"bin", "rg">>

\* hasRipgrep: `which rg` exits with 0.
hasRipgrep == IsFile(RgPath)

\* The files a search in path goes through.
SearchedFiles(path) ==
    {q \in DOMAIN files : IsUnder(q, Normalize(path)) /\ ~IsUnder(q, <<"bin">>)}

\* rg or grep -r on pattern and path: exit status 2 with nothing printed when
\* the path does not exist, 1 when no file matches, 0 with the matches
\* otherwise.
Backend(pattern, path) ==
    LET found == {q \in SearchedFiles(path) : Includes(files[q], pattern)}
    IN  IF ~Exists(path) THEN [code |-> 2, stdout |-> {}]
        ELSE IF found = {} THEN [code |-> 1, stdout |-> {}]
        ELSE [code |-> 0, stdout |-> found]

\* What grepTool.handler returns: exec rejects for a status other than 0;
\* code 1 is answered as no matches.  The matches carry line numbers when
\* args.showLineNumbers is truthy (-n).
grepAnswer(args) ==
    LET run == Backend(Str(args, "pattern"), PathOrDot(args))
    IN  IF run.code = 0
        THEN Success(IF Truthy(args, "showLineNumbers")
                     THEN "numbered matches" ELSE "matches", run.stdout)
        ELSE IF run.code = 1 THEN Success("No matches found", {})
        ELSE Failure("Error searching", {})

\* grepTool.handler
grepTool(args) ==
    /\ UNCHANGED <<fsVars, procVars>>
    /\ resp' = grepAnswer(args)

\* The characters of a file name.
NameText(name) ==
    CASE name = "a.txt"  -> <<"a", ".", "t", "x", "t">>
      [] name = "b.txt"  -> <<"b", ".", "t", "x", "t">>
      [] name = "passwd" -> <<"p", "a", "s", "s", "w", "d">>
      [] OTHER           -> <<name>>

\* glob(path/**/*query*): the files under path whose name holds the query.
GlobNames(query, path) ==
    {q \in DOMAIN files :
        /\ IsUnder(q, Normalize(path)) /\ q # Normalize(path)
        /\ Includes(NameText(q[Len(q)]), query)}

\* The status exec sees for the content command of search: that of rg, or
\* that of head, the last command of the pipe grep writes into.
ContentCommand(query, path) ==
    LET run == Backend(query, path)
    IN  IF hasRipgrep THEN run ELSE [code |-> 0, stdout |-> run.stdout]

\* What searchTool.handler returns.  args.type is compared as it was given.
searchAnswer(args) ==
    LET type  == IF "type" \in DOMAIN args THEN args.type ELSE "undefined"
        names == IF type \in {"all", "filename"}
                 THEN GlobNames(Str(args, "query"), PathOrDot(args)) ELSE {}
        run   == ContentCommand(Str(args, "query"), PathOrDot(args))
        runs  == type \in {"all", "code", "text"}
    IN  IF runs /\ run.code \notin {0, 1}
        THEN Failure("Error searching", {})
        ELSE LET content == IF runs /\ run.code = 0 THEN run.stdout ELSE {}
             IN  IF names = {} /\ content = {}
                 THEN Success("No matches found",
                              [filenames |-> {}, content |-> {}])
                 ELSE Success("results",
                              [filenames |-> names, content |-> content])

\* searchTool.handler
searchTool(args) ==
    /\ UNCHANGED <<fsVars, procVars>>
    /\ resp' = searchAnswer(args)

-----------------------------------------------------------------------------
(* index.ts: the server createMCPServer builds.  A tool descriptor is its  *)
(* name and its handler; a built-in handler is named like its tool.        *)

Tool(name, handler) == [name |-> name, handler |-> handler]

\* tools/index.ts: fileTools, searchTools, shellTools, editTools.
allTools ==
    [i \in 1..19 |->
        LET n == <<"read_file", "write_file", "list_files", "get_file_info",
                   "directory_tree", "grep", "find_files", "search", "bash",
                   "run_command", "run_background", "list_processes",
                   "get_process_output", "kill_process", "edit_file",
                   "multi_edit", "create_file", "delete_file", "move_file">>[i]
        IN  Tool(n, n)]

\* new Map(tools.map(t => [t.name, t])): a later entry replaces an earlier
\* one of the same name.
ToolMapOf(tools) ==
    [n \in {tools[i].name : i \in 1..Len(tools)} |->
        tools[CHOOSE i \in 1..Len(tools) :
                 /\ tools[i].name = n
                 /\ \A j \in 1..Len(tools) : tools[j].name = n => j <= i]]

\* request.params.arguments || {}
NoArgs == [k \in {} |-> 0]
ArgsOrEmpty(req) == IF "arguments" \in DOMAIN req THEN req.arguments ELSE NoArgs

Request(server, req) ==
    IF "arguments" \in DOMAIN req
    THEN [server |-> server, method |-> "tools/call", name |-> req.name,
          arguments |-> req.arguments]
    ELSE [server |-> server, method |-> "tools/call", name |-> req.name]

\* A handler a caller registered either answers or throws.
CustomHandlers == {"customAnswers", "customThrows"}

\* tool.handler(args) rejects.  The built-in handlers modelled here catch
\* what they throw, or call nothing that throws.
HandlerThrows(handler, args) == handler = "customThrows"

\* await tool.handler(args)
Handler(handler, args) ==
    CASE handler = "read_file"          -> readFileTool(args)
      [] handler = "write_file"         -> writeFileTool(args)
      [] handler = "list_files"         -> listFilesTool(args)
      [] handler = "get_file_info"      -> getFileInfoTool(args)
      [] handler = "directory_tree"     -> directoryTreeTool(args)
      [] handler = "edit_file"          -> editFileTool(args)
      [] handler = "multi_edit"         -> multiEditTool(args)
      [] handler = "create_file"        -> createFileTool(args)
      [] handler = "delete_file"        -> deleteFileTool(args)
      [] handler = "move_file"          -> moveFileTool(args)
      [] handler = "grep"               -> grepTool(args)
      [] handler = "search"             -> searchTool(args)
      [] handler = "bash"               -> bashTool(args)
      [] handler = "run_command"        -> bashTool(args)
      [] handler = "run_background"     -> runBackgroundTool(args)
      [] handler = "list_processes"     -> listProcessesTool(args)
      [] handler = "get_process_output" -> getProcessOutputTool(args)
      [] handler = "kill_process"       -> killProcessTool(args)
      [] handler = "customAnswers"      ->
            resp' = Success("custom", <<>>) /\ UNCHANGED <<fsVars, procVars>>

\* The CallToolRequestSchema handler of createMCPServer.
ToolsCall(req) ==
    /\ call' = Request("lib", req)
    /\ UNCHANGED <<regVars, checked>>
    /\ IF req.name \notin DOMAIN combinedToolMap
       THEN /\ resp' = Failure("Unknown tool", {req.name})
            /\ UNCHANGED <<fsVars, procVars>>
       ELSE LET tool == combinedToolMap[req.name]
            IN  IF HandlerThrows(tool.handler, ArgsOrEmpty(req))
                THEN /\ resp' = Failure("Error executing", {tool.name})
                     /\ UNCHANGED <<fsVars, procVars>>
                ELSE Handler(tool.handler, ArgsOrEmpty(req))

\* The ListToolsRequestSchema handler of createMCPServer.
ToolsList ==
    /\ call' = [server |-> "lib", method |-> "tools/list"]
    /\ resp' = Success("tools", [i \in 1..Len(combinedTools) |-> combinedTools[i].name])
    /\ UNCHANGED <<fsVars, procVars, regVars, checked>>

\* addTool
addTool(tool) ==
    /\ combinedTools' = Append(combinedTools, tool)
    /\ combinedToolMap' = MapSet(combinedToolMap, tool.name, tool)
    /\ call' = [server |-> "lib", method |-> "addTool", name |-> tool.name]
    /\ resp' = NoResponse
    /\ UNCHANGED <<fsVars, checked, procVars>>

\* removeTool: the first list entry of that name goes, and the map entry.
removeTool(name) ==
    LET found == {i \in 1..Len(combinedTools) : combinedTools[i].name = name}
        index == CHOOSE i \in found : \A j \in found : i <= j
    IN  /\ IF found = {}
           THEN UNCHANGED regVars
           ELSE /\ combinedTools' = SubSeq(combinedTools, 1, index - 1)
                        \o SubSeq(combinedTools, index + 1, Len(combinedTools))
                /\ combinedToolMap' = MapDelete(combinedToolMap, name)
        /\ call' = [server |-> "lib", method |-> "removeTool", name |-> name]
        /\ resp' = NoResponse
        /\ UNCHANGED <<fsVars, checked, procVars>>

-----------------------------------------------------------------------------
(* cli.ts: the server the serve command starts.  Its one handler compares  *)
(* the name with six tools in turn, destructures request.params.arguments  *)
(* before the try block of the tool, and throws for any other name.        *)

CliTools == {"read_file", "write_file", "list_files", "search_files",
             "run_command", "get_file_info"}

\* list_files of cli.ts reads args.directory and stats every entry.
cliListFiles(args) ==
    /\ resp' = IF "directory" \in DOMAIN args /\ IsDir(args.directory)
               THEN Success("entries", Readdir(args.directory))
               ELSE Failure("Error listing files",
                            IF "directory" \in DOMAIN args THEN {} ELSE {"path"})
    /\ UNCHANGED <<fsVars, procVars>>

\* The branch of a tool once its arguments have been destructured; the
\* read_file, write_file and get_file_info branches make the fs calls of
\* the tools of the same name in file-ops.ts.
CliBranch(name, args) ==
    CASE name = "read_file"     -> readFileTool(args)
      [] name = "write_file"    -> writeFileTool(args)
      [] name = "list_files"    -> cliListFiles(args)
      [] name = "get_file_info" -> getFileInfoTool(args)

\* The CallToolRequestSchema handler of startStdioServer.  What it throws
\* reaches the SDK, which answers with a JSON-RPC error.
CliToolsCall(req) ==
    /\ call' = Request("cli", req)
    /\ UNCHANGED <<regVars, checked>>
    /\ IF req.name \notin CliTools
       THEN /\ resp' = RpcError("Unknown tool", {req.name})
            /\ UNCHANGED <<fsVars, procVars>>
       ELSE IF "arguments" \notin DOMAIN req
       THEN /\ resp' = RpcError("TypeError: cannot destructure", {})
            /\ UNCHANGED <<fsVars, procVars>>
       ELSE CliBranch(req.name, req.arguments)

-----------------------------------------------------------------------------
(* fs.writeFile(path, data) step by step, as the three writing handlers    *)
(* call it on a file that exists: it opens the file for writing, which     *)
(* cuts it to length 0, writes the data, in one piece or in more, and      *)
(* closes it.  The handler answers when the promise settles.  One write    *)
(* is under way at a time; other requests run beside it.                   *)

\* A step of the file system that answers no request.
FsEvent(name) == [server |-> "fs", method |-> name]

\* open(path, 'w') for the request req, whose handler answers done once the
\* data is written.
WriteOpen(req, data, done) ==
    /\ writing = NoWrite
    /\ IsFile(req.arguments.path)
    /\ files' = WriteResult(req.arguments.path, <<>>)
    /\ writing' = [req |-> req, path |-> Normalize(req.arguments.path),
                   data |-> data, done |-> done]
    /\ call' = Request("lib", req)
    /\ resp' = NoResponse
    /\ UNCHANGED <<dirs, checked, procVars, regVars>>

\* writeFileTool.handler up to the open of fs.writeFile.
writeFileBegin(args) ==
    /\ {"path", "content"} \subseteq DOMAIN args
    /\ WriteOpen([name |-> "write_file", arguments |-> args], args.content,
                 Success("File written successfully", <<>>))

\* editFileTool.handler up to the open of fs.writeFile.
editFileBegin(args) ==
    /\ ReadErr(args, "path") = ""
    /\ LET content == files[Normalize(args.path)]
           oldText == Str(args, "oldText")
       IN  /\ Includes(content, oldText)
           /\ Occurrences(content, oldText) <= 1
           /\ WriteOpen([name |-> "edit_file", arguments |-> args],
                        Replace(content, oldText, Str(args, "newText")),
                        Success("Successfully replaced text", <<>>))

\* multiEditTool.handler up to the open of fs.writeFile.
multiEditBegin(args) ==
    /\ ReadErr(args, "path") = "" /\ "edits" \in DOMAIN args
    /\ LET done == ApplyEdits(files[Normalize(args.path)], args.edits)
       IN  WriteOpen([name |-> "multi_edit", arguments |-> args], done[1],
                     Success("Edits completed", done[2]))

\* write(fd, ...) takes a part of the data only: more is to come.
WriteSome ==
    /\ writing # NoWrite
    /\ \E k \in (Len(files[writing.path]) + 1)..(Len(writing.data) - 1) :
          files' = [files EXCEPT ![writing.path] = SubSeq(writing.data, 1, k)]
    /\ call' = FsEvent("write")
    /\ resp' = NoResponse
    /\ UNCHANGED <<dirs, writing, checked, procVars, regVars>>

\* The rest of the data is written and the file closed: the promise
\* resolves and the handler answers.
WriteClose ==
    /\ writing # NoWrite
    /\ files' = [files EXCEPT ![writing.path] = writing.data]
    /\ writing' = NoWrite
    /\ call' = Request("lib", writing.req)
    /\ resp' = writing.done
    /\ UNCHANGED <<dirs, checked, procVars, regVars>>

\* A write fails (ENOSPC, EIO): the promise rejects and the catch of the
\* handler answers.  What is in the file stays.
WriteFails ==
    /\ writing # NoWrite
    /\ writing' = NoWrite
    /\ call' = Request("lib", writing.req)
    /\ resp' = Failure(CASE writing.req.name = "write_file" -> "Error writing file"
                         [] writing.req.name = "edit_file"  -> "Error editing file"
                         [] OTHER                           -> "Error in multi-edit",
                       {"ENOSPC"})
    /\ UNCHANGED <<files, dirs, checked, procVars, regVars>>

(* create_file and move_file step by step: the handler awaits fs.access,   *)
(* and other requests are handled before it goes on to its mkdir and its   *)
(* write or rename.  One such handler waits at a time.                     *)

\* The await of fs.access has let the handler of req pass.
CheckPassed(req) ==
    /\ checked = NoCheck
    /\ checked' = req
    /\ call' = Request("lib", req)
    /\ resp' = NoResponse
    /\ UNCHANGED <<fsVars, procVars, regVars>>

\* createFileTool.handler up to the end of its existence check.
createFileChecked(args) ==
    /\ ~createFileRefused(args)
    /\ CheckPassed([name |-> "create_file", arguments |-> args])

\* moveFileTool.handler up to the end of its existence check.
moveFileChecked(args) ==
    /\ ~moveFileRefused(args)
    /\ CheckPassed([name |-> "move_file", arguments |-> args])

\* The handler that waited goes on and answers.
CheckedResumes ==
    /\ checked # NoCheck
    /\ checked' = NoCheck
    /\ call' = Request("lib", checked)
    /\ UNCHANGED regVars
    /\ IF checked.name = "create_file"
       THEN createFileWrite(checked.arguments)
       ELSE moveFileRename(checked.arguments)

-----------------------------------------------------------------------------
(* The server after construction, and the requests of the specifications.  *)

FileA   == <<"proj", "a.txt">>
FileNew == <<"proj", "sub", "b.txt">>
DirSub  == <<"proj", "sub">>
FileOut == <<"etc", "passwd">>
FileEsc == <<"proj", "..", "etc", "passwd">>

Started == [server |-> "none", method |-> "start"]

InitProcesses ==
    /\ backgroundProcesses = <<>>
    /\ procData = <<>>
    /\ osProc = <<>>

\* createMCPServer: the built-in tools, then the custom tools of the config.
InitRegistry(customTools) ==
    /\ combinedTools = allTools \o customTools
    /\ combinedToolMap = ToolMapOf(allTools \o customTools)

\* No file of the model is longer than the bound.
ContentBounded(f) == \A q \in DOMAIN f : Len(f[q]) <= MaxContent

(* ---- edit_file and multi_edit on one file ---- *)

InitContents == {<<>>, <<"a">>, <<"a", "a", "a">>, <<"a", "b", "a">>}
OldTexts     == {<<>>, <<"a">>, <<"a", "a">>, <<"b">>}
NewTexts     == {<<>>, <<"b">>, <<"a", "a">>, <<"$", "&">>}

EditArgs ==
    {[path |-> p, oldText |-> o, newText |-> n] :
        p \in {FileA, FileNew}, o \in OldTexts, n \in NewTexts}
    \cup {[path |-> FileA, oldText |-> o] : o \in OldTexts}
    \cup {[path |-> FileA, newText |-> n] : n \in NewTexts}
    \cup {[oldText |-> <<"a">>, newText |-> <<"b">>]}
    \cup {[path |-> FileA, oldText |-> <<"a">>, newText |-> <<"b">>,
           replaceAll |-> TRUE]}

BatchEdits ==
    {[oldText |-> <<"a">>, newText |-> <<"b">>],
     [oldText |-> <<"b">>, newText |-> <<"a", "a">>],
     [oldText |-> <<"a", "a">>, newText |-> <<>>],
     [oldText |-> <<"b", "b">>, newText |-> <<"a">>],
     [oldText |-> <<>>, newText |-> <<"b">>],
     [oldText |-> <<"a">>, newText |-> <<"b">>, replaceAll |-> TRUE]}

RECURSIVE ListsUpTo(_, _)
\* The lists of at most n elements of S.
ListsUpTo(S, n) ==
    IF n = 0 THEN {<<>>}
    ELSE LET shorter == ListsUpTo(S, n - 1)
         IN  shorter \cup {Append(l, e) : l \in shorter, e \in S}

MultiEditArgs ==
    {[path |-> FileA, edits |-> l] : l \in ListsUpTo(BatchEdits, MaxEdits)}
    \cup {[path |-> FileNew, edits |-> <<>>], [path |-> FileA]}

InitEdit ==
    /\ files \in {[q \in {FileA} |-> c] : c \in InitContents}
    /\ dirs = {<<>>, <<"proj">>}
    /\ InitProcesses
    /\ InitRegistry(<<>>)
    /\ call = Started
    /\ resp = NoResponse
    /\ writing = NoWrite
    /\ checked = NoCheck

EditFileCall ==
    \E args \in EditArgs :
        /\ ToolsCall([name |-> "edit_file", arguments |-> args])
        /\ ContentBounded(files')

MultiEditCall ==
    \E args \in MultiEditArgs :
        /\ ToolsCall([name |-> "multi_edit", arguments |-> args])
        /\ ContentBounded(files')

NextEdit == EditFileCall \/ MultiEditCall

SpecEdit == InitEdit /\ [][NextEdit]_vars

(* ---- the background processes ---- *)

Ids          == {"s", "t"}
Commands     == {<<"x", " ", "y">>}
StdoutChunks == {<<"a", "\n", "b", "\n">>}
StderrChunks == {<<"e">>}
Tails        == {1}

InitProc ==
    /\ files = [q \in {FileA} |-> <<"a">>]
    /\ dirs = {<<>>, <<"proj">>}
    /\ InitProcesses
    /\ InitRegistry(<<>>)
    /\ call = Started
    /\ resp = NoResponse
    /\ writing = NoWrite
    /\ checked = NoCheck

RunBackgroundCall ==
    \E args \in {[id |-> i, command |-> c] : i \in Ids, c \in Commands}
                \cup {[id |-> "s"]} :
        /\ Cardinality(Spawned) < MaxSpawns
        /\ ToolsCall([name |-> "run_background", arguments |-> args])

ListProcessesCall == ToolsCall([name |-> "list_processes"])

GetProcessOutputCall ==
    \E args \in {[id |-> i] : i \in Ids}
                \cup {[id |-> i, tail |-> t] : i \in Ids, t \in Tails} :
        ToolsCall([name |-> "get_process_output", arguments |-> args])

KillProcessCall ==
    \E i \in Ids : ToolsCall([name |-> "kill_process", arguments |-> [id |-> i]])

ChildStdout == \E pid \in Spawned, chunk \in StdoutChunks : StdoutData(pid, chunk)
ChildStderr == \E pid \in Spawned, chunk \in StderrChunks : StderrData(pid, chunk)
ChildExit   == \E pid \in Spawned, code \in {"0", "null"} : ExitEvent(pid, code)

NextProc ==
    \/ RunBackgroundCall
    \/ ListProcessesCall
    \/ GetProcessOutputCall
    \/ KillProcessCall
    \/ ChildStdout
    \/ ChildStderr
    \/ ChildExit

SpecProc == InitProc /\ [][NextProc]_vars

(* ---- the two dispatchers and the registry ---- *)

CustomTools ==
    {Tool("my_tool", "customAnswers"), Tool("my_tool", "customThrows"),
     Tool("read_file", "customAnswers")}

RpcNames == {"read_file", "get_file_info", "list_files", "my_tool", "edit_file"}

RpcRequests ==
    {[name |-> n] : n \in RpcNames}
    \cup {[name |-> n, arguments |-> a] :
            n \in RpcNames \ {"edit_file"},
            a \in {NoArgs, [path |-> FileA], [directory |-> <<"proj">>]}}

InitRpc ==
    /\ files = [q \in {FileA} |-> <<"a">>]
    /\ dirs = {<<>>, <<"proj">>}
    /\ InitProcesses
    /\ \E custom \in ListsUpTo(CustomTools, 1) : InitRegistry(custom)
    /\ call = Started
    /\ resp = NoResponse
    /\ writing = NoWrite
    /\ checked = NoCheck

LibCall == \E req \in RpcRequests : ToolsCall(req)
CliCall == \E req \in RpcRequests : CliToolsCall(req)

AddTool ==
    \E tool \in CustomTools :
        /\ Len(combinedTools) < Len(allTools) + MaxCustom
        /\ addTool(tool)

RemoveTool == \E name \in {"read_file", "my_tool"} : removeTool(name)

NextRpc == LibCall \/ CliCall \/ ToolsList \/ AddTool \/ RemoveTool

SpecRpc == InitRpc /\ [][NextRpc]_vars

(* ---- the file tools ---- *)

FsFiles    == {FileA, FileNew, FileOut, FileEsc}
FsPaths    == FsFiles \cup {DirSub}
FsContents == {<<"a">>, <<"b">>}

InitFiles ==
    /\ files = [q \in {FileA, FileOut} |-> IF q = FileA THEN <<"a">> ELSE <<"b">>]
    /\ dirs = {<<>>, <<"proj">>, <<"etc">>}
    /\ InitProcesses
    /\ InitRegistry(<<>>)
    /\ call = Started
    /\ resp = NoResponse
    /\ writing = NoWrite
    /\ checked = NoCheck

PathArgs == {[path |-> p] : p \in FsPaths} \cup {NoArgs}

WriteArgs ==
    {[path |-> p, content |-> c] : p \in FsFiles, c \in FsContents}
    \cup {[path |-> FileNew], [content |-> <<"a">>]}

CreateArgs ==
    WriteArgs \cup {[path |-> p, content |-> <<"b">>, overwrite |-> TRUE] : p \in FsFiles}

DeleteArgs == PathArgs \cup {[path |-> DirSub, recursive |-> TRUE]}

MoveArgs ==
    {[source |-> p, destination |-> q] : p, q \in FsFiles \ {FileEsc}}
    \cup {[source |-> p, destination |-> q, overwrite |-> TRUE] :
            p \in {FileA, FileOut}, q \in {FileA, FileOut}}
    \cup {[source |-> FileA], [destination |-> FileNew]}

FsEditArgs ==
    {[path |-> p, oldText |-> o, newText |-> <<"b">>] :
        p \in FsFiles, o \in {<<"a">>, <<"b">>}}

FsMultiEditArgs ==
    {[path |-> p, edits |-> <<[oldText |-> <<"b">>, newText |-> <<"a">>]>>] :
        p \in FsFiles}

ReadFileCall ==
    \E a \in PathArgs : ToolsCall([name |-> "read_file", arguments |-> a])
WriteFileCall ==
    \E a \in WriteArgs : ToolsCall([name |-> "write_file", arguments |-> a])
ListFilesCall ==
    \E a \in PathArgs : ToolsCall([name |-> "list_files", arguments |-> a])
GetFileInfoCall ==
    \E a \in PathArgs : ToolsCall([name |-> "get_file_info", arguments |-> a])
DirectoryTreeCall ==
    \E a \in PathArgs : ToolsCall([name |-> "directory_tree", arguments |-> a])
FsEditFileCall ==
    \E a \in FsEditArgs : ToolsCall([name |-> "edit_file", arguments |-> a])
FsMultiEditCall ==
    \E a \in FsMultiEditArgs : ToolsCall([name |-> "multi_edit", arguments |-> a])
CreateFileCall ==
    \E a \in CreateArgs : ToolsCall([name |-> "create_file", arguments |-> a])
DeleteFileCall ==
    \E a \in DeleteArgs : ToolsCall([name |-> "delete_file", arguments |-> a])
MoveFileCall ==
    \E a \in MoveArgs : ToolsCall([name |-> "move_file", arguments |-> a])

NextFiles ==
    \/ ReadFileCall
    \/ WriteFileCall
    \/ ListFilesCall
    \/ GetFileInfoCall
    \/ DirectoryTreeCall
    \/ FsEditFileCall
    \/ FsMultiEditCall
    \/ CreateFileCall
    \/ DeleteFileCall
    \/ MoveFileCall

SpecFiles == InitFiles /\ [][NextFiles]_vars

(* ---- one background process, its command line and its output ---- *)

QuotedCommand == <<"s", " ", "'", "a", " ", "b", "'">>
PlainCommand  == <<"x", " ", "y">>
BlockChunks   == {<<Block>>}

RunQuotedCall ==
    \E c \in {QuotedCommand, PlainCommand} :
        /\ Cardinality(Spawned) < MaxSpawns
        /\ ToolsCall([name |-> "run_background",
                      arguments |-> [id |-> "s", command |-> c]])

BlockStdout ==
    \E pid \in Spawned, chunk \in StdoutChunks \cup BlockChunks :
        StdoutData(pid, chunk)

BlockStderr == \E pid \in Spawned, chunk \in BlockChunks : StderrData(pid, chunk)

NextCapture ==
    \/ RunQuotedCall
    \/ GetProcessOutputCall
    \/ KillProcessCall
    \/ BlockStdout
    \/ BlockStderr
    \/ ChildExit

SpecCapture == InitProc /\ [][NextCapture]_vars

(* ---- bash and run_command ---- *)

Sleeps    == {100, 500, 40000}
OutBytes  == {0, 5, MaxBuffer, MaxBuffer + 1}
ErrBytes  == {0, 3, MaxBuffer + 1}
Statuses  == {0, 1, 2}
Scripts   == {Script(d, o, e, x) :
                 d \in Sleeps, o \in OutBytes, e \in ErrBytes, x \in Statuses}
Timeouts  == {0, 200, 60000}

BashArgs ==
    {[command |-> c] : c \in Scripts}
    \cup {[command |-> c, timeout |-> t] : c \in Scripts, t \in Timeouts}
    \cup {[timeout |-> t] : t \in Timeouts}

BashCall == \E args \in BashArgs : ToolsCall([name |-> "bash", arguments |-> args])

RunCommandCall ==
    \E args \in BashArgs : ToolsCall([name |-> "run_command", arguments |-> args])

NextShell == BashCall \/ RunCommandCall

SpecShell == InitProc /\ [][NextShell]_vars

(* ---- a write under way, and a reader beside it ---- *)

WriteFileBegin ==
    \E c \in {<<>>, <<"b">>, <<"b", "a">>} :
        writeFileBegin([path |-> FileA, content |-> c])

EditFileBegin ==
    \E o \in {<<"a">>, <<"b">>}, n \in {<<"b">>, <<"a", "b">>} :
        /\ editFileBegin([path |-> FileA, oldText |-> o, newText |-> n])
        /\ Len(writing'.data) <= MaxContent

MultiEditBegin ==
    \E l \in ListsUpTo(BatchEdits, 1) :
        /\ multiEditBegin([path |-> FileA, edits |-> l])
        /\ Len(writing'.data) <= MaxContent

ReadBeside == ToolsCall([name |-> "read_file", arguments |-> [path |-> FileA]])

NextAtomic ==
    \/ WriteFileBegin
    \/ EditFileBegin
    \/ MultiEditBegin
    \/ WriteSome
    \/ WriteClose
    \/ WriteFails
    \/ ReadBeside

SpecAtomic == InitEdit /\ [][NextAtomic]_vars

(* ---- grep and search, with rg installed and without ---- *)

Patterns    == {<<"a">>, <<"t">>, <<"z">>}
SearchPaths == {<<"proj">>, <<"nope">>}
SearchTypes == {"all", "filename", "code"}

InitSearch ==
    /\ \E installed \in SUBSET {RgPath} :
          /\ files = [q \in {FileA} \cup installed |-> <<"a">>]
          /\ dirs = {<<>>, <<"proj">>} \cup {Dirname(q) : q \in installed}
    /\ InitProcesses
    /\ InitRegistry(<<>>)
    /\ call = Started
    /\ resp = NoResponse
    /\ writing = NoWrite
    /\ checked = NoCheck

GrepCall ==
    \E args \in {[pattern |-> q] : q \in Patterns}
                \cup {[pattern |-> q, path |-> p] : q \in Patterns, p \in SearchPaths}
                \cup {[path |-> p] : p \in SearchPaths}
                \cup {[pattern |-> <<"a">>, showLineNumbers |-> b] :
                         b \in BOOLEAN} :
        ToolsCall([name |-> "grep", arguments |-> args])

SearchCall ==
    \E args \in {[query |-> q] : q \in Patterns}
                \cup {[query |-> q, type |-> t] : q \in Patterns, t \in SearchTypes}
                \cup {[query |-> q, path |-> p, type |-> t] :
                         q \in Patterns, p \in SearchPaths, t \in SearchTypes} :
        ToolsCall([name |-> "search", arguments |-> args])

SearchedWrite ==
    \E c \in {<<"a">>, <<"z">>, <<>>} :
        ToolsCall([name |-> "write_file",
                   arguments |-> [path |-> FileA, content |-> c]])

NextSearch == GrepCall \/ SearchCall \/ SearchedWrite

SpecSearch == InitSearch /\ [][NextSearch]_vars

(* ---- edits given one by one, and the same edits given as a batch ---- *)

OrderedEdits ==
    {[oldText |-> <<"a">>, newText |-> <<"b">>],
     [oldText |-> <<"b">>, newText |-> <<"a", "a">>],
     [oldText |-> <<"a", "a">>, newText |-> <<>>]}

InitBatch ==
    /\ files \in {[q \in {FileA} |-> c] : c \in {<<"a">>, <<"b", "b">>, <<"a", "b", "a">>}}
    /\ dirs = {<<>>, <<"proj">>}
    /\ InitProcesses
    /\ InitRegistry(<<>>)
    /\ call = Started
    /\ resp = NoResponse
    /\ writing = NoWrite
    /\ checked = NoCheck

SingleEditCall ==
    \E e \in OrderedEdits :
        /\ ToolsCall([name |-> "edit_file",
                      arguments |-> [path |-> FileA, oldText |-> e.oldText,
                                     newText |-> e.newText]])
        /\ ContentBounded(files')

BatchEditCall ==
    \E l \in ListsUpTo(OrderedEdits, MaxEdits) :
        /\ ToolsCall([name |-> "multi_edit",
                      arguments |-> [path |-> FileA, edits |-> l]])
        /\ ContentBounded(files')

NextBatch == SingleEditCall \/ BatchEditCall

SpecBatch == InitBatch /\ [][NextBatch]_vars

(* ---- an id used again after its process was killed ---- *)

\* What a child writes tells which child wrote it.
OwnChunk(pid) == <<ToString(pid)>>

ReuseRunCall ==
    /\ Cardinality(Spawned) < MaxSpawns
    /\ ToolsCall([name |-> "run_background",
                  arguments |-> [id |-> "s", command |-> <<"x", " ", "y">>]])

ReuseKillCall == ToolsCall([name |-> "kill_process", arguments |-> [id |-> "s"]])

ReuseOutputCall ==
    ToolsCall([name |-> "get_process_output", arguments |-> [id |-> "s"]])

OwnStdout == \E pid \in Spawned : StdoutData(pid, OwnChunk(pid))
OwnStderr == \E pid \in Spawned : StderrData(pid, OwnChunk(pid))

NextReuse ==
    \/ ReuseRunCall
    \/ ReuseKillCall
    \/ ReuseOutputCall
    \/ ListProcessesCall
    \/ OwnStdout
    \/ OwnStderr
    \/ ChildExit

SpecReuse == InitProc /\ [][NextReuse]_vars

(* ---- create_file and move_file beside other calls on the same paths ---- *)

FileB == <<"proj", "b.txt">>

RaceContents == {<<"a">>, <<"b">>}

RaceCreateArgs ==
    {[path |-> p, content |-> c] : p \in {FileA, FileB}, c \in RaceContents}
    \cup {[path |-> FileB, content |-> <<"b">>, overwrite |-> TRUE]}

RaceMoveArgs ==
    {[source |-> FileA, destination |-> FileB],
     [source |-> FileB, destination |-> FileA],
     [source |-> FileA, destination |-> FileB, overwrite |-> TRUE]}

CreateChecked == \E a \in RaceCreateArgs : createFileChecked(a)
MoveChecked   == \E a \in RaceMoveArgs : moveFileChecked(a)

RaceCreateCall ==
    \E a \in RaceCreateArgs : ToolsCall([name |-> "create_file", arguments |-> a])
RaceMoveCall ==
    \E a \in RaceMoveArgs : ToolsCall([name |-> "move_file", arguments |-> a])
RaceWriteCall ==
    \E p \in {FileA, FileB}, c \in RaceContents :
        ToolsCall([name |-> "write_file",
                   arguments |-> [path |-> p, content |-> c]])

NextRace ==
    \/ CreateChecked
    \/ MoveChecked
    \/ CheckedResumes
    \/ RaceCreateCall
    \/ RaceMoveCall
    \/ RaceWriteCall

SpecRace == InitProc /\ [][NextRace]_vars

(* ---- a background command that cannot be started ---- *)

\* The server handles requests and events: it has not crashed, and no
\* 'error' event is due on the next tick, which comes before any request.
Serving ==
    /\ resp # Crashed
    /\ \A pid \in Spawned : osProc[pid].state # "failed"

SpawnRunCall ==
    \E i \in Ids, c \in Commands \cup {NoSuchProgram} :
        /\ Serving
        /\ Cardinality(Spawned) < MaxSpawns
        /\ ToolsCall([name |-> "run_background",
                      arguments |-> [id |-> i, command |-> c]])

SpawnListCall == Serving /\ ListProcessesCall
SpawnKillCall == Serving /\ KillProcessCall
SpawnStdout   == Serving /\ ChildStdout
SpawnExit     == Serving /\ ChildExit
SpawnFails    == \E pid \in Spawned : resp # Crashed /\ SpawnError(pid)

NextSpawn ==
    \/ SpawnRunCall
    \/ SpawnListCall
    \/ SpawnKillCall
    \/ SpawnStdout
    \/ SpawnExit
    \/ SpawnFails

SpecSpawn == InitProc /\ [][NextSpawn]_vars

-----------------------------------------------------------------------------
(* What the claims speak of.                                               *)

\* The step handled a tools/call of that tool on that server.
IsCall(c, server, name) ==
    c.server = server /\ c.method = "tools/call" /\ c.name = name

ArgsOf(c) == IF "arguments" \in DOMAIN c THEN c.arguments ELSE NoArgs

\* The configured allowed roots, and the permission rule of the spec: the
\* canonical form of the path lies under one of them.
AllowedRoots == {<<"proj">>}
IsPathAllowed(p) == \E r \in AllowedRoots : IsUnder(Normalize(p), r)

FsToolNames == {"read_file", "write_file", "list_files", "get_file_info",
                "directory_tree", "edit_file", "multi_edit", "create_file",
                "delete_file", "move_file"}

PathFields == {"path", "source", "destination"}

\* The number of positions of content at which oldText occurs.
Positions(content, oldText) ==
    Cardinality({i \in 1..(Len(content) + 1) : OccursAt(content, oldText, i)})

RECURSIVE SomeEditFails(_, _)
\* Going through the edits in order, one of them is not found exactly once
\* in the running content.
SomeEditFails(content, edits) ==
    /\ edits # <<>>
    /\ \/ Positions(content, edits[1].oldText) # 1
       \/ SomeEditFails(Replace(content, edits[1].oldText, edits[1].newText),
                        Tail(edits))

\* inputSchema.required of the tools of edit.ts.
editRequired(name) ==
    CASE name = "edit_file"   -> {"path", "oldText", "newText"}
      [] name = "multi_edit"  -> {"path", "edits"}
      [] name = "create_file" -> {"path", "content"}
      [] name = "delete_file" -> {"path"}
      [] name = "move_file"   -> {"source", "destination"}
      [] OTHER                -> {}

\* inputSchema.required of the tools of file-ops.ts.
fileOpsRequired(name) ==
    CASE name = "read_file"     -> {"path"}
      [] name = "write_file"    -> {"path", "content"}
      [] name = "get_file_info" -> {"path"}
      [] OTHER                  -> {}

\* inputSchema.required of the tools of shell.ts.
shellRequired(name) ==
    CASE name = "bash"               -> {"command"}
      [] name = "run_background"     -> {"command", "id"}
      [] name = "get_process_output" -> {"id"}
      [] name = "kill_process"       -> {"id"}
      [] OTHER                       -> {}

\* The fields the inputSchema of a tool requires.
RequiredFields(name) ==
    editRequired(name) \cup fileOpsRequired(name) \cup shellRequired(name)

MissingFields(c) == RequiredFields(c.name) \ DOMAIN ArgsOf(c)

\* C1: a filesystem tool call with a path argument whose canonical form is
\* not under an allowed root returns an error and leaves the file system
\* as it was.
C1_OutsideRootsDenied ==
    [][(/\ call'.server = "lib" /\ call'.method = "tools/call"
        /\ call'.name \in FsToolNames
        /\ \E f \in PathFields \cap DOMAIN ArgsOf(call') :
              ~IsPathAllowed(ArgsOf(call')[f]))
       => (resp'.isError /\ files' = files /\ dirs' = dirs)]_vars

\* C2: an edit_file call whose (non-empty) oldText occurs at N # 1 positions
\* of the file returns an error, which states N when N >= 2, and leaves the
\* file as it was.
C2_NonUniqueEditRejected ==
    [][(/\ IsCall(call', "lib", "edit_file")
        /\ {"path", "oldText", "newText"} \subseteq DOMAIN ArgsOf(call')
        /\ IsFile(call'.arguments.path)
        /\ Positions(files[Normalize(call'.arguments.path)],
                     call'.arguments.oldText) # 1)
       => LET n == Positions(files[Normalize(call'.arguments.path)],
                             call'.arguments.oldText)
          IN  /\ resp'.isError
              /\ n >= 2 => resp'.count = n
              /\ files' = files]_vars

\* C3: a multi_edit call one of whose edits fails its uniqueness check
\* against the running content reports an error and leaves the file as it
\* was.
C3_FailedBatchAborted ==
    [][(/\ IsCall(call', "lib", "multi_edit")
        /\ {"path", "edits"} \subseteq DOMAIN ArgsOf(call')
        /\ IsFile(call'.arguments.path)
        /\ SomeEditFails(files[Normalize(call'.arguments.path)],
                         call'.arguments.edits))
       => (resp'.isError /\ files' = files)]_vars

\* C4: a tools/call that names a registered tool is answered with a tool
\* result, on both servers, whatever its arguments.
C4_RegisteredToolAnswers ==
    /\ (call.server = "lib" /\ call.method = "tools/call"
        /\ call.name \in DOMAIN combinedToolMap) => resp.rpc = "result"
    /\ (call.server = "cli" /\ call.method = "tools/call"
        /\ call.name \in CliTools) => resp.rpc = "result"

\* C5: a tools/call that names no registered tool is answered with a tool
\* result that is an error and quotes the name, on both servers.
C5_UnknownToolIsToolError ==
    (\/ (call.server = "lib" /\ call.method = "tools/call"
         /\ call.name \notin DOMAIN combinedToolMap)
     \/ (call.server = "cli" /\ call.method = "tools/call"
         /\ call.name \notin CliTools))
    => (resp.rpc = "result" /\ resp.isError /\ call.name \in resp.quotes)

\* C6: a tools/call that leaves out a required field of the tool's
\* inputSchema is answered with an error that names a field left out.
C6_MissingFieldReported ==
    (call.server = "lib" /\ call.method = "tools/call"
     /\ call.name \in DOMAIN combinedToolMap /\ MissingFields(call) # {})
    => (resp.isError /\ resp.quotes \cap MissingFields(call) # {})

\* C7: while a record with an id is in the table, running or exited,
\* run_background with that id returns an error that names the id, spawns
\* nothing and leaves the table and the record as they were.
C7_DuplicateIdRejected ==
    [][(/\ IsCall(call', "lib", "run_background")
        /\ IdOf(ArgsOf(call')) \in DOMAIN backgroundProcesses)
       => (/\ resp'.isError
           /\ IdOf(ArgsOf(call')) \in resp'.quotes
           /\ osProc' = osProc
           /\ procData' = procData
           /\ backgroundProcesses' = backgroundProcesses)]_vars

\* A run_background was rejected for an id whose process had already exited.
C7_Witness ==
    /\ IsCall(call, "lib", "run_background")
    /\ resp.isError /\ resp.kind = "Process with ID already exists"
    /\ IdOf(ArgsOf(call)) \in DOMAIN backgroundProcesses
    /\ osProc[backgroundProcesses[IdOf(ArgsOf(call))]].state = "exited"

\* C8: a kill_process that succeeds removes the record; an id that is not in
\* the table comes back only by run_background of that id; for an id not in
\* the table get_process_output and kill_process answer not-found, and
\* list_processes lists no such id.
C8_KilledIsGone ==
    [][/\ (IsCall(call', "lib", "kill_process") /\ ~resp'.isError)
            => IdOf(ArgsOf(call')) \notin DOMAIN backgroundProcesses'
       /\ \A id \in DOMAIN backgroundProcesses' \ DOMAIN backgroundProcesses :
            IsCall(call', "lib", "run_background") /\ IdOf(ArgsOf(call')) = id
       /\ ((IsCall(call', "lib", "get_process_output")
              \/ IsCall(call', "lib", "kill_process"))
           /\ IdOf(ArgsOf(call')) \notin DOMAIN backgroundProcesses)
            => (/\ resp'.isError
                /\ resp'.kind = "No process found with ID"
                /\ IdOf(ArgsOf(call')) \in resp'.quotes)
       /\ IsCall(call', "lib", "list_processes")
            => \A e \in resp'.out : e.id \in DOMAIN backgroundProcesses]_vars

\* A kill_process of a spawned id has just succeeded while another record
\* stays in the table.
C8_Witness ==
    /\ IsCall(call, "lib", "kill_process")
    /\ ~resp.isError /\ resp.kind = "Process killed"
    /\ IdOf(ArgsOf(call)) \notin DOMAIN backgroundProcesses
    /\ DOMAIN backgroundProcesses # {}

\* C9: when kill_process has succeeded and removed the record, the process
\* of that record is not alive.
C9_KilledIsDead ==
    [][(IsCall(call', "lib", "kill_process") /\ ~resp'.isError)
       => osProc'[backgroundProcesses[IdOf(ArgsOf(call'))]].state # "running"]_vars

\* C10: a record in the table is reported as running exactly until the exit
\* event of its process; the exit event gives it the exit code; a record
\* reported as not running is not reported as running later; a record leaves
\* the table only by a kill_process of its id that succeeds; list_processes
\* lists every record and get_process_output returns what was captured.
C10_RecordLifecycle ==
    [][/\ \A id \in DOMAIN backgroundProcesses' :
            ProcessEntry(id)'.running
                <=> (osProc'[backgroundProcesses'[id]].state = "running")
       /\ (call'.server = "child" /\ call'.method = "exit")
            => \A id \in DOMAIN backgroundProcesses' :
                 (osProc[backgroundProcesses'[id]].state = "running"
                  /\ osProc'[backgroundProcesses'[id]].state = "exited")
                 => (/\ ProcessEntry(id)'.exitCode = call'.data
                     /\ ~ProcessEntry(id)'.running)
       /\ \A id \in DOMAIN backgroundProcesses \cap DOMAIN backgroundProcesses' :
            (backgroundProcesses'[id] = backgroundProcesses[id]
             /\ ~ProcessEntry(id).running)
            => (/\ ~ProcessEntry(id)'.running
                /\ ProcessEntry(id)'.exitCode = ProcessEntry(id).exitCode)
       /\ \A id \in DOMAIN backgroundProcesses :
            (\/ id \notin DOMAIN backgroundProcesses'
             \/ backgroundProcesses'[id] # backgroundProcesses[id])
            => (/\ IsCall(call', "lib", "kill_process")
                /\ IdOf(ArgsOf(call')) = id /\ ~resp'.isError)
       /\ IsCall(call', "lib", "list_processes")
            => (/\ ~resp'.isError
                /\ resp'.out = {ProcessEntry(id) : id \in DOMAIN backgroundProcesses})
       /\ (IsCall(call', "lib", "get_process_output")
           /\ IdOf(ArgsOf(call')) \in DOMAIN backgroundProcesses)
            => LET data == procData[backgroundProcesses[IdOf(ArgsOf(call'))]]
               IN  /\ ~resp'.isError
                   /\ ("tail" \notin DOMAIN ArgsOf(call')
                       /\ Len(data.output) <= DefaultTail
                       /\ Len(data.error) <= DefaultTail)
                      => (/\ resp'.out.stdout = Join(data.output)
                          /\ resp'.out.stderr = Join(data.error))]_vars

\* list_processes has just listed a record that exited with status 0 and
\* holds output.
C10_Witness ==
    /\ IsCall(call, "lib", "list_processes")
    /\ \E e \in resp.out :
          /\ ~e.running /\ e.exitCode = "0"
          /\ e.id \in DOMAIN backgroundProcesses
          /\ procData[backgroundProcesses[e.id]].output # <<>>

RECURSIVE JoinWith(_, _)
\* The pieces put together again with sep between them.
JoinWith(pieces, sep) ==
    IF pieces = <<>> THEN <<>>
    ELSE IF Len(pieces) = 1 THEN pieces[1]
    ELSE pieces[1] \o sep \o JoinWith(Tail(pieces), sep)

\* Every occurrence of oldText in content, found from left to right,
\* replaced by newText taken literally.
ReplacedEverywhere(content, oldText, newText) ==
    JoinWith(Split(content, oldText), newText)

\* C15: an edit_file call with replaceAll true whose oldText occurs at least
\* once in the file succeeds and leaves the file with every occurrence
\* replaced by newText.
C15_ReplaceAllReplacesAll ==
    [][(/\ IsCall(call', "lib", "edit_file")
        /\ {"path", "oldText", "newText", "replaceAll"} \subseteq DOMAIN ArgsOf(call')
        /\ call'.arguments.replaceAll = TRUE
        /\ call'.arguments.oldText # <<>>
        /\ IsFile(call'.arguments.path)
        /\ Positions(files[Normalize(call'.arguments.path)],
                     call'.arguments.oldText) >= 1)
       => (/\ ~resp'.isError
           /\ files'[Normalize(call'.arguments.path)]
                = ReplacedEverywhere(files[Normalize(call'.arguments.path)],
                                     call'.arguments.oldText,
                                     call'.arguments.newText))]_vars

\* C16: an edit_file call whose oldText is the empty string, and a multi_edit
\* call one of whose edits has the empty string as oldText, returns an error
\* and leaves the file as it was, whatever the file holds.
C16_EmptyOldTextRejected ==
    [][/\ (/\ IsCall(call', "lib", "edit_file")
           /\ {"path", "oldText"} \subseteq DOMAIN ArgsOf(call')
           /\ call'.arguments.oldText = <<>>)
          => (resp'.isError /\ files' = files)
       /\ (/\ IsCall(call', "lib", "multi_edit")
           /\ {"path", "edits"} \subseteq DOMAIN ArgsOf(call')
           /\ \E i \in 1..Len(call'.arguments.edits) :
                 call'.arguments.edits[i].oldText = <<>>)
          => (resp'.isError /\ files' = files)]_vars

\* The positions of text at which a line starts.
LineStarts(text) ==
    IF text = <<>> THEN {}
    ELSE {1} \cup {i + 1 : i \in {j \in 1..(Len(text) - 1) : text[j] = "\n"}}

\* The last n lines of text, all of it when it has fewer.
LastLines(text, n) ==
    LET starts == LineStarts(text)
    IN  IF Cardinality(starts) <= n THEN text
        ELSE LET from == CHOOSE i \in starts :
                            Cardinality({k \in starts : k >= i}) = n
             IN  SubSeq(text, from, Len(text))

\* C18: get_process_output returns, for stdout and for stderr, the last tail
\* lines of what was captured (50 when no tail is given), however the
\* output arrived in chunks.
C18_TailCountsLines ==
    [][(/\ IsCall(call', "lib", "get_process_output")
        /\ IdOf(ArgsOf(call')) \in DOMAIN backgroundProcesses)
       => LET data == procData[backgroundProcesses[IdOf(ArgsOf(call'))]]
              n    == IF "tail" \in DOMAIN ArgsOf(call')
                      THEN call'.arguments.tail ELSE DefaultTail
          IN  /\ ~resp'.isError
              /\ resp'.out.stdout = LastLines(Join(data.output), n)
              /\ resp'.out.stderr = LastLines(Join(data.error), n)]_vars

\* The capacity of a capture buffer the spec allows at least.
BufferCapacity == 64 * 1024

\* C17: the captured stdout and the captured stderr of every background
\* record never hold more than the capacity of the buffer.
C17_CaptureBounded ==
    \A pid \in Spawned :
        /\ StoredBytes(procData[pid].output) <= BufferCapacity
        /\ StoredBytes(procData[pid].error) <= BufferCapacity

RECURSIVE ShellWordsFrom(_, _, _, _)
\* The words of what is left of a command line: word is the word being
\* read, open tells whether one is being read, quoted whether a single
\* quote is open.
ShellWordsFrom(rest, word, open, quoted) ==
    IF rest = <<>> THEN (IF open THEN <<word>> ELSE <<>>)
    ELSE IF rest[1] = "'"
    THEN ShellWordsFrom(Tail(rest), word, TRUE, ~quoted)
    ELSE IF rest[1] = " " /\ ~quoted
    THEN (IF open THEN <<word>> ELSE <<>>)
         \o ShellWordsFrom(Tail(rest), <<>>, FALSE, FALSE)
    ELSE ShellWordsFrom(Tail(rest), Append(word, rest[1]), TRUE, quoted)

\* The words a shell reads a command line as: spaces separate them, except
\* between single quotes, which are taken off.
ShellWords(command) == ShellWordsFrom(command, <<>>, FALSE, FALSE)

\* C19: the process run_background starts gets the words of the command
\* line as its arguments, a quoted word with spaces in it as one argument.
C19_CommandLineWords ==
    [][(/\ IsCall(call', "lib", "run_background")
        /\ ~resp'.isError
        /\ "command" \in DOMAIN ArgsOf(call'))
       => osProc'[backgroundProcesses'[IdOf(ArgsOf(call'))]].argv
            = ShellWords(call'.arguments.command)]_vars

\* The call is a bash or run_command call with a command.
IsShellCall(c) ==
    /\ c.server = "lib" /\ c.method = "tools/call"
    /\ c.name \in {"bash", "run_command"}
    /\ "command" \in DOMAIN ArgsOf(c)

\* The timeout the spec gives a call: the one given, 30000 ms otherwise.
GivenTimeout(c) ==
    IF "timeout" \in DOMAIN ArgsOf(c) THEN c.arguments.timeout ELSE DefaultTimeout

\* C11: a bash or run_command call whose command runs longer than the
\* timeout returns an error that says the command timed out and states
\* the timeout in milliseconds.
C11_TimeoutReported ==
    (IsShellCall(call) /\ GivenTimeout(call) > 0
     /\ call.arguments.command.sleep > GivenTimeout(call))
    => (/\ resp.isError
        /\ resp.kind = "timed out"
        /\ resp.count = GivenTimeout(call))

\* C12: a bash or run_command call whose command ends within the timeout
\* and within the output cap returns no error whatever the exit status,
\* and its result holds the status and the captured output.
C12_ExitStatusIsData ==
    (IsShellCall(call) /\ GivenTimeout(call) > 0
     /\ call.arguments.command.sleep < GivenTimeout(call)
     /\ call.arguments.command.stdout <= MaxBuffer
     /\ call.arguments.command.stderr <= MaxBuffer)
    => (/\ ~resp.isError
        /\ call.arguments.command.status # 0
             => resp.out.status = {call.arguments.command.status}
        /\ resp.out.stdout = call.arguments.command.stdout
        /\ resp.out.stderr = call.arguments.command.stderr)

\* C13: a bash or run_command call whose command writes more than the cap
\* to stdout or stderr returns no error: its result holds the output up to
\* the cap, what the command wrote after it included, and a truncation
\* flag.
C13_OutputCapTruncates ==
    (IsShellCall(call) /\ GivenTimeout(call) > 0
     /\ call.arguments.command.sleep < GivenTimeout(call)
     /\ call.arguments.command.status = 0
     /\ (\/ call.arguments.command.stdout > MaxBuffer
         \/ call.arguments.command.stderr > MaxBuffer))
    => (/\ ~resp.isError
        /\ resp.out.stdout = Min(call.arguments.command.stdout, MaxBuffer)
        /\ resp.out.stderr = Min(call.arguments.command.stderr, MaxBuffer)
        /\ resp.out.truncated)

\* C14: the content of a file changes only by a step that puts the whole
\* data of a write of that file in its place: whoever reads the file beside
\* a write_file, edit_file or multi_edit call finds the content of before or
\* the new content, and a write that fails has left the content of before.
C14_WritesAreAtomic ==
    [][\A p \in DOMAIN files \cap DOMAIN files' :
          files'[p] # files[p]
          => \E w \in {writing, writing'} \ {NoWrite} :
                w.path = p /\ files'[p] = w.data]_vars

\* C20: when the backend of grep, or of the content strategy of search,
\* exits with 1, the result is no error: grep says that nothing matched,
\* search leaves the content section out and keeps the filename section;
\* when the backend exits with another status than 0 and 1 the result is
\* an error.
C20_BackendExitCodes ==
    /\ (IsCall(call, "lib", "grep") /\ "pattern" \in DOMAIN ArgsOf(call))
       => LET run == Backend(call.arguments.pattern, PathOrDot(call.arguments))
          IN  /\ run.code = 1
                 => (~resp.isError /\ resp.kind = "No matches found")
              /\ run.code \notin {0, 1} => resp.isError
    /\ (/\ IsCall(call, "lib", "search")
        /\ {"query", "type"} \subseteq DOMAIN ArgsOf(call)
        /\ call.arguments.type \in {"all", "code", "text"})
       => LET run == Backend(call.arguments.query, PathOrDot(call.arguments))
          IN  /\ run.code = 1
                 => (/\ ~resp.isError
                     /\ resp.out.content = {}
                     /\ resp.out.filenames
                          = IF call.arguments.type = "all"
                            THEN GlobNames(call.arguments.query,
                                           PathOrDot(call.arguments))
                            ELSE {})
              /\ run.code \notin {0, 1} => resp.isError

\* The names of the descriptors of a list, in its order.
NamesOf(tools) == [i \in 1..Len(tools) |-> tools[i].name]

\* No two elements of the sequence are equal.
NoRepeats(seq) == \A i, j \in 1..Len(seq) : seq[i] = seq[j] => i = j

\* C21: the registry never holds two descriptors of one name: a custom tool
\* whose name is that of a built-in tool or of another custom tool is not
\* taken in, at startup or later.
C21_NoDuplicateNames == NoRepeats(NamesOf(combinedTools))

\* The position the single occurrence of oldText has in content.
PositionOf(content, oldText) ==
    CHOOSE i \in 1..(Len(content) + 1) : OccursAt(content, oldText, i)

\* prefix + newText + suffix, where content is prefix + oldText + suffix.
LiteralEdit(content, oldText, newText) ==
    LET i == PositionOf(content, oldText)
    IN  SubSeq(content, 1, i - 1) \o newText
        \o SubSeq(content, i + Len(oldText), Len(content))

\* C22: an edit_file call that succeeds, its non-empty oldText occurring
\* exactly once, leaves the file with that occurrence replaced by newText,
\* character for character.
C22_LiteralReplacement ==
    [][(/\ IsCall(call', "lib", "edit_file")
        /\ {"path", "oldText", "newText"} \subseteq DOMAIN ArgsOf(call')
        /\ IsFile(call'.arguments.path)
        /\ call'.arguments.oldText # <<>>
        /\ Positions(files[Normalize(call'.arguments.path)],
                     call'.arguments.oldText) = 1
        /\ ~resp'.isError)
       => files'[Normalize(call'.arguments.path)]
            = LiteralEdit(files[Normalize(call'.arguments.path)],
                          call'.arguments.oldText,
                          call'.arguments.newText)]_vars

\* C23: an edit_file call, or a multi_edit call with one edit, without
\* replaceAll and with a non-empty oldText changes the file only when
\* oldText occurs at exactly one position of it, overlapping occurrences
\* counted one by one; the number an error states is that number.
C23_OverlapsCounted ==
    [][/\ (/\ IsCall(call', "lib", "edit_file")
           /\ {"path", "oldText", "newText"} \subseteq DOMAIN ArgsOf(call')
           /\ "replaceAll" \notin DOMAIN ArgsOf(call')
           /\ call'.arguments.oldText # <<>>
           /\ IsFile(call'.arguments.path))
          => LET n == Positions(files[Normalize(call'.arguments.path)],
                                call'.arguments.oldText)
             IN  /\ files' # files => n = 1
                 /\ resp'.kind = "oldText found N times" => resp'.count = n
       /\ (/\ IsCall(call', "lib", "multi_edit")
           /\ {"path", "edits"} \subseteq DOMAIN ArgsOf(call')
           /\ IsFile(call'.arguments.path)
           /\ Len(call'.arguments.edits) = 1
           /\ "replaceAll" \notin DOMAIN call'.arguments.edits[1]
           /\ call'.arguments.edits[1].oldText # <<>>)
          => (files' # files
              => Positions(files[Normalize(call'.arguments.path)],
                           call'.arguments.edits[1].oldText) = 1)]_vars

\* edit_file accepts the edit on that content: oldText is found, and not
\* found more than once by the count of the handler.
Accepted(content, edit) ==
    /\ Includes(content, edit.oldText)
    /\ Occurrences(content, edit.oldText) <= 1

\* What edit_file leaves of the content for an edit it accepts.
EditOnce(content, edit) == Replace(content, edit.oldText, edit.newText)

RECURSIVE AllAccepted(_, _)
\* Given one after another as single edit_file calls, every edit of the list
\* is accepted.
AllAccepted(content, edits) ==
    \/ edits = <<>>
    \/ /\ Accepted(content, edits[1])
       /\ AllAccepted(EditOnce(content, edits[1]), Tail(edits))

RECURSIVE OneAfterAnother(_, _)
\* The content the edits leave, given one after another.
OneAfterAnother(content, edits) ==
    IF edits = <<>> THEN content
    ELSE OneAfterAnother(EditOnce(content, edits[1]), Tail(edits))

\* C24: an edit_file call that accepts its edit writes EditOnce of it; a
\* multi_edit call whose edits are all accepted, each against the content the
\* edits before it left, writes in one write what the edits leave when they
\* are given one after another as single edit_file edits.
C24_EditsInListOrder ==
    [][/\ (/\ IsCall(call', "lib", "edit_file")
           /\ {"path", "oldText", "newText"} \subseteq DOMAIN ArgsOf(call')
           /\ IsFile(call'.arguments.path)
           /\ Accepted(files[Normalize(call'.arguments.path)], call'.arguments))
          => files' = [files EXCEPT ![Normalize(call'.arguments.path)] =
                          EditOnce(@, call'.arguments)]
       /\ (/\ IsCall(call', "lib", "multi_edit")
           /\ {"path", "edits"} \subseteq DOMAIN ArgsOf(call')
           /\ IsFile(call'.arguments.path)
           /\ AllAccepted(files[Normalize(call'.arguments.path)],
                          call'.arguments.edits))
          => (/\ ~resp'.isError
              /\ resp'.out = [i \in 1..Len(call'.arguments.edits) |-> "Replaced"]
              /\ files' = [files EXCEPT ![Normalize(call'.arguments.path)] =
                              OneAfterAnother(@, call'.arguments.edits)])]_vars

\* A multi_edit has just replaced a by b and then that b by aa: the second
\* edit matched what the first one put in.
C24_Witness ==
    /\ IsCall(call, "lib", "multi_edit")
    /\ "edits" \in DOMAIN ArgsOf(call)
    /\ call.arguments.edits = <<[oldText |-> <<"a">>, newText |-> <<"b">>],
                                [oldText |-> <<"b">>, newText |-> <<"a", "a">>]>>
    /\ resp.out = <<"Replaced", "Replaced">>
    /\ files[FileA] = <<"a", "a">>

\* The defaults the inputSchema of grep and of search declare, for the
\* parameters the model tells apart.
grepDefaults   == [path |-> Cwd, showLineNumbers |-> TRUE]
searchDefaults == [path |-> Cwd, type |-> "all"]

\* The arguments with every parameter left out set to its declared default.
WithDefaults(args, defaults) ==
    [k \in DOMAIN args \cup DOMAIN defaults |->
        IF k \in DOMAIN args THEN args[k] ELSE defaults[k]]

\* C25: a grep or search call that leaves out parameters with a declared
\* default is answered as the call that passes the defaults: search with a
\* query only as type 'all', grep without showLineNumbers as with true.
C25_DefaultsApplied ==
    /\ (IsCall(call, "lib", "search") /\ "query" \in DOMAIN ArgsOf(call))
       => resp = searchAnswer(WithDefaults(call.arguments, searchDefaults))
    /\ (IsCall(call, "lib", "grep") /\ "pattern" \in DOMAIN ArgsOf(call))
       => resp = grepAnswer(WithDefaults(call.arguments, grepDefaults))

\* tools/list and tools/call speak of the same tools: the names listed are
\* the names dispatched, no name is listed twice, and the descriptor listed
\* for a name is the one whose handler is called.
RegistryConsistent ==
    /\ {combinedTools[i].name : i \in 1..Len(combinedTools)} = DOMAIN combinedToolMap
    /\ NoRepeats(NamesOf(combinedTools))
    /\ \A i \in 1..Len(combinedTools) :
          combinedTools[i].name \in DOMAIN combinedToolMap
          => combinedToolMap[combinedTools[i].name] = combinedTools[i]

\* C26: after every addTool and every removeTool the list and the map of
\* the server are consistent.
C26_ListMatchesDispatch ==
    [][(call'.server = "lib" /\ call'.method \in {"addTool", "removeTool"})
       => RegistryConsistent']_vars

\* Every chunk of the sequence was written by that child.
AllOwn(chunks, pid) == \A i \in 1..Len(chunks) : chunks[i] = OwnChunk(pid)

\* C27: the record the table holds for an id holds the output of its own
\* process only, and an exit code only once its own process has exited,
\* whatever still arrives from a process that was killed under that id
\* before.
C27_RecordOfItsOwnProcess ==
    \A id \in DOMAIN backgroundProcesses :
        LET pid == backgroundProcesses[id]
        IN  /\ AllOwn(procData[pid].output, pid)
            /\ AllOwn(procData[pid].error, pid)
            /\ procData[pid].exitCode # "undefined" => osProc[pid].state = "exited"

\* The first process, killed and still alive, has just written to stdout
\* while the table holds the record of the second process under its id.
C27_Witness ==
    /\ {1, 2} \subseteq Spawned
    /\ call.server = "child" /\ call.method = "stdout"
    /\ call.data = OwnChunk(1)
    /\ osProc[1].signal = "SIGTERM"
    /\ "s" \in DOMAIN backgroundProcesses
    /\ backgroundProcesses["s"] = 2
    /\ osProc[2].state = "running"
    /\ procData[2].output = <<>>

\* C28: a create_file call answered while its path is a file, and a
\* move_file call answered while its destination is a file, overwrite false
\* or left out, returns an error and replaces nothing, whatever was handled
\* between its existence check and its write or rename.
C28_NoOverwriteUnlessAsked ==
    [][/\ (/\ IsCall(call', "lib", "create_file")
           /\ resp'.rpc = "result"
           /\ {"path", "content"} \subseteq DOMAIN ArgsOf(call')
           /\ ~Truthy(ArgsOf(call'), "overwrite")
           /\ IsFile(call'.arguments.path))
          => (resp'.isError /\ files' = files)
       /\ (/\ IsCall(call', "lib", "move_file")
           /\ resp'.rpc = "result"
           /\ {"source", "destination"} \subseteq DOMAIN ArgsOf(call')
           /\ ~Truthy(ArgsOf(call'), "overwrite")
           /\ IsFile(call'.arguments.destination))
          => (resp'.isError /\ files' = files)]_vars

\* C29: a write_file, create_file or move_file call that returns an error
\* leaves the files and the directories as they were.
C29_FailedCallChangesNothing ==
    [][(/\ call'.server = "lib" /\ call'.method = "tools/call"
        /\ call'.name \in {"write_file", "create_file", "move_file"}
        /\ resp'.isError)
       => (files' = files /\ dirs' = dirs)]_vars

\* C30: when the command of run_background cannot be started the server
\* goes on running, and list_processes reports no record as running while
\* there is no process for it.
C30_SpawnFailureSurvived ==
    /\ resp # Crashed
    /\ IsCall(call, "lib", "list_processes")
       => \A e \in resp.out : e.running => osProc[e.pid].state = "running"

=============================================================================
